---- MODULE Spec2Model ----
(***************************************************************************)
(* A model of package jsonpatch (jsonpatch.go): JSON Pointer parsing, the  *)
(* navigator (VisitPath), the four mutators, the six builtin extensions    *)
(* and the Check-then-Apply loop of Patch.applyAny.                        *)
(*                                                                         *)
(* Go strings are sequences of one-character strings, so that Split,       *)
(* unescapePath, the index regular expressions and Atoi are computed.      *)
(* Go maps and slices are references: a map value names a heap cell, a     *)
(* slice value names a backing array together with its length (every slice *)
(* of the package starts at offset 0; cap is the backing array's length).  *)
(***************************************************************************)
EXTENDS Integers, Sequences, FiniteSets, TLC

VARIABLES
  heap,     \* the Go heap: cells of maps and of slice backing arrays
  doc,      \* *o, the document root
  ops,      \* the operation list handed to applyAny
  strict,   \* Patch.StrictPathExists
  neg,      \* Patch.SupportNegativeArrayIndex
  pc,       \* position in applyAny: "check", "apply", "done"
  idx,      \* position of the range loop of applyAny (1-based)
  result,   \* what applyAny returned: "none", "ok", "checkerr", "stopped", "failed", "panic"
  init,     \* the heap and the document root at the call
  log,      \* per ext.Apply call so far: the loop position, the heap and root
            \* before the call, the error it returned
  argSize,  \* ParseArrayIndex called on its own: its size argument
  argToken, \* ... its s argument
  parsed    \* ... what it returned

vars == <<heap, doc, ops, strict, neg, pc, idx, result, init, log, argSize, argToken, parsed>>

\* Longest operation list drawn by Init.
MaxOps == 2

\* Largest array size and longest token handed to ParseArrayIndex on its own.
MaxSize == 12
MaxTok == 3

-----------------------------------------------------------------------------
\* Strings

Max(a, b) == IF a >= b THEN a ELSE b

\* strings.Split(s, "/")
RECURSIVE Split(_)
Split(s) ==
  IF \A i \in 1..Len(s) : s[i] # "/" THEN <<s>>
  ELSE LET i == CHOOSE i \in 1..Len(s) : s[i] = "/" /\ \A j \in 1..(i-1) : s[j] # "/"
       IN  <<SubSeq(s, 1, i-1)>> \o Split(SubSeq(s, i+1, Len(s)))

\* unescapeReplace.Replace: "~1" -> "/", "~0" -> "~", one left-to-right pass
RECURSIVE unescapePath(_)
unescapePath(path) ==
  IF Len(path) = 0 THEN <<>>
  ELSE IF Len(path) >= 2 /\ path[1] = "~" /\ path[2] = "1"
       THEN <<"/">> \o unescapePath(SubSeq(path, 3, Len(path)))
  ELSE IF Len(path) >= 2 /\ path[1] = "~" /\ path[2] = "0"
       THEN <<"~">> \o unescapePath(SubSeq(path, 3, Len(path)))
  ELSE <<path[1]>> \o unescapePath(Tail(path))

\* JSONPointer.IsTheWholeDocument
IsTheWholeDocument(origin) == origin = <<>>

\* JSONPointer.Path
Path(origin) ==
  LET v == Split(origin)
  IN  Tail([i \in 1..Len(v) |-> unescapePath(v[i])])

\* JSONPointer.Check: TRUE iff the pointer is accepted
PointerCheck(origin) == origin = <<>> \/ origin[1] = "/"

\* JSONPointer.ParentPath
ParentPath(origin) ==
  LET v == Path(origin)
  IN  IF Len(v) = 0 THEN <<>> ELSE SubSeq(v, 1, Len(v) - 1)

\* JSONPointer.SameParent
SameParent(p, o) ==
  LET a == ParentPath(p)
      b == ParentPath(o)
  IN  /\ Len(a) = Len(b)
      /\ \A i \in 1..Len(a) : a[i] = b[i]

\* JSONPointer.LastToken
LastToken(origin) ==
  LET v == Path(origin)
  IN  IF Len(v) = 0 THEN <<>> ELSE v[Len(v)]

-----------------------------------------------------------------------------
\* Array index grammar

Digits == <<"0", "1", "2", "3", "4", "5", "6", "7", "8", "9">>

IsDigit(c) == \E d \in 1..10 : Digits[d] = c

DigitVal(c) == (CHOOSE d \in 1..10 : Digits[d] = c) - 1

\* indexRE  ^(0|([1-9][0-9]*))$
indexRE(s) ==
  \/ s = <<"0">>
  \/ /\ Len(s) >= 1
     /\ IsDigit(s[1]) /\ s[1] # "0"
     /\ \A i \in 2..Len(s) : IsDigit(s[i])

\* negativeIndexRE  ^-?(0|([1-9][0-9]*))$
negativeIndexRE(s) ==
  \/ indexRE(s)
  \/ Len(s) >= 1 /\ s[1] = "-" /\ indexRE(Tail(s))

RECURSIVE AtoiDigits(_, _)
AtoiDigits(s, acc) ==
  IF Len(s) = 0 THEN acc ELSE AtoiDigits(Tail(s), 10 * acc + DigitVal(s[1]))

\* strconv.Atoi on a token the regular expression accepted
Atoi(s) == IF s[1] = "-" THEN 0 - AtoiDigits(Tail(s), 0) ELSE AtoiDigits(s, 0)

\* if i < 0 { i = size + i }
fromEnd(size, i) == IF i < 0 THEN size + i ELSE i

\* A range check that takes the append position for out of range
checkRange_mExclusive(size, i) ==
  IF i < 0 \/ i >= size THEN [err |-> "range", i |-> 0] ELSE [err |-> "nil", i |-> i]

\* if i < 0 || i > size { return 0, "array index out of range" }
checkRange(size, i) ==
  IF i < 0 \/ i > size THEN [err |-> "range", i |-> 0] ELSE [err |-> "nil", i |-> i]

\* Patch.ParseArrayIndex: err is "nil", "badindex" or "range"
ParseArrayIndex(negOn, size, s) ==
  IF s = <<"-">> THEN [err |-> "nil", i |-> size]
  ELSE IF negOn THEN
    IF ~negativeIndexRE(s) THEN [err |-> "badindex", i |-> 0]
    ELSE checkRange(size, fromEnd(size, Atoi(s)))
  ELSE
    IF ~indexRE(s) THEN [err |-> "badindex", i |-> 0]
    ELSE checkRange(size, Atoi(s))

\* No call of ParseArrayIndex has returned
NotParsed == [err |-> "none", i |-> 0]

\* errors.Is(err, ErrNotExists)
IsNotExists(err) == err = "notexists"

\* errors.Is(err, ErrStop)
IsStop(err) == err = "stop"

-----------------------------------------------------------------------------
\* Values and the heap

Null == [t |-> "null", a |-> 0, n |-> 0]
Num(k) == [t |-> "num", a |-> 0, n |-> k]
MapRef(a) == [t |-> "map", a |-> a, n |-> 0]
ArrRef(a, len) == [t |-> "arr", a |-> a, n |-> len]

EmptyMap == [k \in {} |-> Null]

MapCell(m) == [k |-> "map", m |-> m, s |-> <<>>]
ArrCell(s) == [k |-> "arr", m |-> EmptyMap, s |-> s]

\* v[key] = value on a Go map
MapPut(m, key, value) ==
  [k \in (DOMAIN m) \cup {key} |-> IF k = key THEN value ELSE m[k]]

\* delete(v, key)
MapDelete(m, key) == [k \in (DOMAIN m) \ {key} |-> m[k]]

Nulls(n) == [i \in 1..n |-> Null]

\* runtime growslice for a slice of interfaces whose append exceeds cap
GrowCap(cap, need) == Max(need, 2 * cap)

\* append(s, v): in place while len < cap, a new backing array otherwise
AppendOne(h, s, v) ==
  LET back == h[s.a].s
  IN  IF s.n < Len(back)
      THEN [h |-> [h EXCEPT ![s.a].s[s.n + 1] = v], v |-> ArrRef(s.a, s.n + 1)]
      ELSE LET nb == SubSeq(back, 1, s.n) \o <<v>>
                       \o Nulls(GrowCap(Len(back), s.n + 1) - (s.n + 1))
           IN  [h |-> Append(h, ArrCell(nb)), v |-> ArrRef(Len(h) + 1, s.n + 1)]

\* sliceRemove: append(s[:i], s[i+1:]...) shifts the tail left inside the
\* backing array; the slot after the new end keeps its old content
sliceRemove(h, s, i) ==
  LET back == h[s.a].s
      nb == [j \in 1..Len(back) |->
               IF j >= i + 1 /\ j <= s.n - 1 THEN back[j + 1] ELSE back[j]]
  IN  [h |-> [h EXCEPT ![s.a].s = nb], v |-> ArrRef(s.a, s.n - 1)]

\* sliceInsert: err is "nil" or "panic" (n[i] = v with i = len(n))
sliceInsert(h, s, i, v) ==
  IF i = s.n THEN [err |-> "nil"] @@ AppendOne(h, s, v)
  ELSE IF i > s.n THEN [err |-> "panic", h |-> h, v |-> s]
  ELSE LET back == h[s.a].s
           nb == [j \in 1..(s.n + 1) |->
                    IF j <= i THEN back[j]
                    ELSE IF j = i + 1 THEN v
                    ELSE back[j - 1]]
       IN  [err |-> "nil", h |-> Append(h, ArrCell(nb)), v |-> ArrRef(Len(h) + 1, s.n + 1)]

-----------------------------------------------------------------------------
\* Setters and the navigator. An operator that continues a function after
\* one of its calls takes the call's result as its last parameter.

NoSet == [k |-> "none", a |-> 0, key |-> <<>>, i |-> 0]
RootSet == [k |-> "root", a |-> 0, key |-> <<>>, i |-> 0]
KeySet(a, key) == [k |-> "key", a |-> a, key |-> key, i |-> 0]
IdxSet(a, i) == [k |-> "idx", a |-> a, key |-> <<>>, i |-> i]

\* What a mutator or an extension returns: the error, and the heap and the
\* document root it leaves
Ret(err, h, d) == [err |-> err, h |-> h, d |-> d]

\* Calling a Setter: func(n) { *o = n }, { v[part] = n } or { v[i] = n }
ApplySet(h, d, set, n) ==
  IF set.k = "root" THEN Ret("nil", h, n)
  ELSE IF set.k = "key"
       THEN Ret("nil", [h EXCEPT ![set.a].m = MapPut(@, set.key, n)], d)
  ELSE Ret("nil", [h EXCEPT ![set.a].s[set.i + 1] = n], d)

\* set(v) for a slice v that sliceInsert or sliceRemove returned
SetSlice(d, set, sl) == ApplySet(sl.h, d, set, sl.v)

Visited(err, node, set) == [err |-> err, node |-> node, set |-> set]

\* Patch.visitPathPart, case []any, after ParseArrayIndex returned r
visitIndex(h, o, r) ==
  IF r.err # "nil" THEN Visited(r.err, Null, NoSet)
  ELSE IF r.i = o.n THEN Visited("notexists", Null, NoSet)
  ELSE Visited("nil", h[o.a].s[r.i + 1], IdxSet(o.a, r.i))

\* Patch.visitPathPart
visitPathPart(p, h, o, part) ==
  IF o.t = "map" THEN
    IF part \notin DOMAIN h[o.a].m
    THEN Visited("notexists", Null, NoSet)
    ELSE Visited("nil", h[o.a].m[part], KeySet(o.a, part))
  ELSE IF o.t = "arr" THEN
    IF o.n = 0 THEN Visited("notexists", Null, NoSet)
    ELSE visitIndex(h, o, ParseArrayIndex(p.neg, o.n, part))
  ELSE Visited("type", Null, NoSet)

RECURSIVE VisitFrom(_, _, _, _, _)
RECURSIVE visitNext(_, _, _, _)

\* The loop of Patch.VisitPath from node on
VisitFrom(p, h, node, set, parts) ==
  IF Len(parts) = 0 THEN Visited("nil", node, set)
  ELSE visitNext(p, h, visitPathPart(p, h, node, parts[1]), Tail(parts))

\* The loop body after visitPathPart returned r
visitNext(p, h, r, rest) ==
  IF r.err # "nil" THEN Visited(r.err, Null, NoSet)
  ELSE VisitFrom(p, h, r.node, r.set, rest)

\* if set == nil { return node, func(n any) { *o = n }, nil }
rootSetter(r) ==
  IF r.err = "nil" /\ r.set = NoSet THEN Visited("nil", r.node, RootSet) ELSE r

\* Patch.VisitPath
VisitPath(p, h, d, parts) == rootSetter(VisitFrom(p, h, d, NoSet, parts))

-----------------------------------------------------------------------------
\* Mutators

\* An AddValue that builds the longer slice and does not store it
addAtIndex_mNoSet(h, d, o, set, value, r) ==
  IF r.err # "nil" THEN Ret(r.err, h, d)
  ELSE Ret("nil", sliceInsert(h, o, r.i, value).h, d)

\* Patch.AddValue, case []any, after ParseArrayIndex returned r
addAtIndex(h, d, o, set, value, r) ==
  IF r.err # "nil" THEN Ret(r.err, h, d)
  ELSE SetSlice(d, set, sliceInsert(h, o, r.i, value))

\* Patch.AddValue
AddValue(p, h, d, o, set, key, value) ==
  IF o.t = "map" THEN Ret("nil", [h EXCEPT ![o.a].m = MapPut(@, key, value)], d)
  ELSE IF o.t = "arr" THEN addAtIndex(h, d, o, set, value, ParseArrayIndex(p.neg, o.n, key))
  ELSE Ret("type", h, d)

\* Patch.ReplaceValue, case []any, after ParseArrayIndex returned r
replaceAtIndex(p, h, d, o, value, r) ==
  IF r.err # "nil" THEN Ret(r.err, h, d)
  ELSE IF o.n = r.i THEN Ret(IF p.strict THEN "notexists" ELSE "nil", h, d)
  ELSE Ret("nil", [h EXCEPT ![o.a].s[r.i + 1] = value], d)

\* Patch.ReplaceValue
ReplaceValue(p, h, d, o, key, value) ==
  IF o.t = "map" THEN
    IF p.strict /\ key \notin DOMAIN h[o.a].m THEN Ret("notexists", h, d)
    ELSE Ret("nil", [h EXCEPT ![o.a].m = MapPut(@, key, value)], d)
  ELSE IF o.t = "arr" THEN replaceAtIndex(p, h, d, o, value, ParseArrayIndex(p.neg, o.n, key))
  ELSE Ret("type", h, d)

\* Patch.RemoveValue, case []any, after ParseArrayIndex returned r
removeAtIndex(p, h, d, o, set, r) ==
  IF r.err # "nil" \/ o.n = r.i
  THEN Ret(IF p.strict THEN "notexists" ELSE "nil", h, d)
  ELSE SetSlice(d, set, sliceRemove(h, o, r.i))

\* Patch.RemoveValue
RemoveValue(p, h, d, o, set, key) ==
  IF o.t = "map" THEN
    IF p.strict /\ key \notin DOMAIN h[o.a].m THEN Ret("notexists", h, d)
    ELSE Ret("nil", [h EXCEPT ![o.a].m = MapDelete(@, key)], d)
  ELSE IF o.t = "arr" THEN removeAtIndex(p, h, d, o, set, ParseArrayIndex(p.neg, o.n, key))
  ELSE Ret("type", h, d)

\* v[ti] = e; set(v), after sliceInsert returned ins; a panic of
\* sliceInsert leaves the heap as sliceRemove left it (hRem)
moveStore(hRem, d, set, ti, e, ins) ==
  IF ins.err # "nil" THEN Ret(ins.err, hRem, d)
  ELSE ApplySet([ins.h EXCEPT ![ins.v.a].s[ti + 1] = e], d, set, ins.v)

\* v = sliceInsert(v, ti, e), after sliceRemove returned rem
moveInsert(d, set, ti, e, rem) ==
  moveStore(rem.h, d, set, ti, e, sliceInsert(rem.h, rem.v, ti, e))

\* Patch.MoveValue, case []any, after ParseArrayIndex returned f and t
moveIndices(p, h, d, o, set, f, t) ==
  IF f.err # "nil" \/ t.err # "nil"
  THEN Ret(IF p.strict THEN "notexists" ELSE "nil", h, d)
  ELSE IF f.i = t.i THEN Ret("nil", h, d)
  ELSE IF f.i >= o.n THEN Ret("panic", h, d)
  ELSE moveInsert(d, set, t.i, h[o.a].s[f.i + 1], sliceRemove(h, o, f.i))

\* Patch.MoveValue
MoveValue(p, h, d, o, set, from, to) ==
  IF o.t = "map" THEN
    IF from \notin DOMAIN h[o.a].m
    THEN Ret(IF p.strict THEN "notexists" ELSE "nil", h, d)
    ELSE Ret("nil", [h EXCEPT ![o.a].m = MapPut(MapDelete(@, from), to, h[o.a].m[from])], d)
  ELSE IF o.t = "arr" THEN
    moveIndices(p, h, d, o, set, ParseArrayIndex(p.neg, o.n, from),
                ParseArrayIndex(p.neg, o.n, to))
  ELSE Ret("type", h, d)

-----------------------------------------------------------------------------
\* deepCopy

RECURSIVE SetToSeq(_)
SetToSeq(S) ==
  IF S = {} THEN <<>>
  ELSE LET x == CHOOSE x \in S : TRUE IN <<x>> \o SetToSeq(S \ {x})

RECURSIVE deepCopy(_, _)
RECURSIVE copyElems(_, _, _, _)
RECURSIVE copyFields(_, _, _, _)

\* for i, v := range v { c[i] = deepCopy(v) }
copyElems(h, src, c, i) ==
  IF i > Len(src) THEN h
  ELSE LET r == deepCopy(h, src[i])
       IN  copyElems([r.h EXCEPT ![c].s[i] = r.v], src, c, i + 1)

\* for k, v := range v { c[k] = deepCopy(v) }
copyFields(h, src, c, keys) ==
  IF Len(keys) = 0 THEN h
  ELSE LET r == deepCopy(h, src[keys[1]])
       IN  copyFields([r.h EXCEPT ![c].m = MapPut(@, keys[1], r.v)], src, c, Tail(keys))

\* A copy of the outer container only: nested containers stay shared
deepCopy_mShallow(h, o) ==
  IF o.t = "arr" THEN
    [h |-> Append(h, ArrCell(SubSeq(h[o.a].s, 1, o.n))), v |-> ArrRef(Len(h) + 1, o.n)]
  ELSE IF o.t = "map" THEN
    [h |-> Append(h, MapCell(h[o.a].m)), v |-> MapRef(Len(h) + 1)]
  ELSE [h |-> h, v |-> o]

\* deepCopy: a new container for every array and map, at every depth
deepCopy(h, o) ==
  IF o.t = "arr" THEN
    LET c == Len(h) + 1
        src == SubSeq(h[o.a].s, 1, o.n)
    IN  [h |-> copyElems(Append(h, ArrCell(Nulls(o.n))), src, c, 1), v |-> ArrRef(c, o.n)]
  ELSE IF o.t = "map" THEN
    LET c == Len(h) + 1
        src == h[o.a].m
    IN  [h |-> copyFields(Append(h, MapCell(EmptyMap)), src, c, SetToSeq(DOMAIN src)),
         v |-> MapRef(c)]
  ELSE [h |-> h, v |-> o]

\* The JSON value a Go value denotes (reflect.DeepEqual compares these)
RECURSIVE Tree(_, _)
Tree(h, o) ==
  IF o.t = "arr" THEN
    [t |-> "arr", n |-> 0, m |-> EmptyMap, s |-> [i \in 1..o.n |-> Tree(h, h[o.a].s[i])]]
  ELSE IF o.t = "map" THEN
    [t |-> "map", n |-> 0, m |-> [k \in DOMAIN h[o.a].m |-> Tree(h, h[o.a].m[k])], s |-> <<>>]
  ELSE [t |-> o.t, n |-> o.n, m |-> EmptyMap, s |-> <<>>]

-----------------------------------------------------------------------------
\* The builtin extensions. An operation is a record whose members are
\* sequences of length 0 (nil pointer) or 1 (the pointee).

Extensions == {"add", "remove", "replace", "move", "copy", "test"}

\* Operation.check
opCheck(o) ==
  IF o.OP = <<>> THEN "noop"
  ELSE IF o.Path = <<>> THEN "nopath"
  ELSE IF ~PointerCheck(o.Path[1]) THEN "pointer"
  ELSE IF o.From # <<>> /\ ~PointerCheck(o.From[1]) THEN "pointer"
  ELSE "nil"

\* A Check of add that takes a null value for a missing one
addCheck_mNullAbsent(op) ==
  IF op.Value = <<>> \/ op.Value = <<Null>> THEN "novalue" ELSE "nil"

\* addExtension.Check
addCheck(op) == IF op.Value = <<>> THEN "novalue" ELSE "nil"

\* replaceExtension.Check
replaceCheck(op) == IF op.Value = <<>> THEN "novalue" ELSE "nil"

\* testExtension.Check
testCheck(op) == IF op.Value = <<>> THEN "novalue" ELSE "nil"

\* moveExtension.Check
moveCheck(op) == IF op.From = <<>> THEN "nofrom" ELSE "nil"

\* copyExtension.Check
copyCheck(op) == IF op.From = <<>> THEN "nofrom" ELSE "nil"

\* removeExtension.Check
removeCheck(op) == "nil"

\* e.Check(p, op) of the registered extension
extCheck(op) ==
  CASE op.OP[1] = "add" -> addCheck(op)
    [] op.OP[1] = "remove" -> removeCheck(op)
    [] op.OP[1] = "replace" -> replaceCheck(op)
    [] op.OP[1] = "move" -> moveCheck(op)
    [] op.OP[1] = "copy" -> copyCheck(op)
    [] op.OP[1] = "test" -> testCheck(op)

\* if err := op.check(); err != nil { return err }
checkExt(op, e) ==
  IF e # "nil" THEN e
  ELSE IF op.OP[1] \notin Extensions THEN "unknown"
  ELSE extCheck(op)

\* The body of the loop of Patch.Check, for one operation
checkOne(op) == checkExt(op, opCheck(op))

RECURSIVE Check(_)
RECURSIVE checkRest(_, _)

\* A Check that looks at the first operation only
Check_mFirstOnly(list) ==
  IF Len(list) = 0 THEN "nil" ELSE checkOne(list[1])

\* Patch.Check: the first error in list order, "nil" when there is none
Check(list) ==
  IF Len(list) = 0 THEN "nil" ELSE checkRest(checkOne(list[1]), Tail(list))

checkRest(e, rest) == IF e # "nil" THEN e ELSE Check(rest)

\* addExtension.Apply after VisitPath returned r
addAtParent(p, h, d, key, value, r) ==
  IF r.err # "nil" THEN Ret(r.err, h, d)
  ELSE AddValue(p, h, d, r.node, r.set, key, value)

\* addExtension.Apply
addApply(p, h, d, op) ==
  IF IsTheWholeDocument(op.Path[1]) THEN Ret("nil", h, op.Value[1])
  ELSE addAtParent(p, h, d, LastToken(op.Path[1]), op.Value[1],
                   VisitPath(p, h, d, ParentPath(op.Path[1])))

\* removeExtension.Apply after VisitPath returned r
removeAtParent(p, h, d, key, r) ==
  IF r.err # "nil" THEN Ret(r.err, h, d)
  ELSE RemoveValue(p, h, d, r.node, r.set, key)

\* A remove that takes the empty pointer for the whole document
removeApply_mWholeDocument(p, h, d, op) ==
  IF IsTheWholeDocument(op.Path[1]) THEN Ret("nil", h, Null)
  ELSE removeAtParent(p, h, d, LastToken(op.Path[1]), VisitPath(p, h, d, ParentPath(op.Path[1])))

\* removeExtension.Apply
removeApply(p, h, d, op) ==
  removeAtParent(p, h, d, LastToken(op.Path[1]), VisitPath(p, h, d, ParentPath(op.Path[1])))

\* replaceExtension.Apply after VisitPath returned r
replaceAtParent(p, h, d, key, value, r) ==
  IF r.err # "nil" THEN Ret(r.err, h, d)
  ELSE ReplaceValue(p, h, d, r.node, key, value)

\* replaceExtension.Apply
replaceApply(p, h, d, op) ==
  IF IsTheWholeDocument(op.Path[1]) THEN Ret("nil", h, op.Value[1])
  ELSE replaceAtParent(p, h, d, LastToken(op.Path[1]), op.Value[1],
                       VisitPath(p, h, d, ParentPath(op.Path[1])))

\* moveExtension.Apply after the VisitPath of path's parent returned pp
moveAddAt(p, h, d, key, value, pp) ==
  IF pp.err # "nil" THEN Ret(pp.err, h, d)
  ELSE AddValue(p, h, d, pp.node, pp.set, key, value)

\* moveExtension.Apply after RemoveValue returned rm
moveAdd(p, path, value, rm) ==
  IF rm.err # "nil" THEN rm
  ELSE moveAddAt(p, rm.h, rm.d, LastToken(path), value,
                 VisitPath(p, rm.h, rm.d, ParentPath(path)))

\* moveExtension.Apply after visitPathPart returned fv
moveValueAt(p, h, d, path, from, fp, fv) ==
  IF fv.err # "nil" THEN Ret(IF p.strict THEN fv.err ELSE "nil", h, d)
  ELSE IF SameParent(path, from)
  THEN MoveValue(p, h, d, fp.node, fp.set, LastToken(from), LastToken(path))
  ELSE moveAdd(p, path, fv.node, RemoveValue(p, h, d, fp.node, fp.set, LastToken(from)))

\* moveExtension.Apply after the VisitPath of from's parent returned fp
moveFrom(p, h, d, path, from, fp) ==
  IF fp.err # "nil" THEN Ret(fp.err, h, d)
  ELSE moveValueAt(p, h, d, path, from, fp, visitPathPart(p, h, fp.node, LastToken(from)))

\* moveExtension.Apply
moveApply(p, h, d, op) ==
  moveFrom(p, h, d, op.Path[1], op.From[1], VisitPath(p, h, d, ParentPath(op.From[1])))

\* p.AddValue(parent, set, parts.LastToken(), deepCopy(value)), c the copy
copyAdd(p, d, pp, key, c) == AddValue(p, c.h, d, pp.node, pp.set, key, c.v)

\* copyExtension.Apply after the VisitPath of from returned fv
copyValue(p, h, d, path, pp, fv) ==
  IF fv.err # "nil" THEN Ret(fv.err, h, d)
  ELSE copyAdd(p, d, pp, LastToken(path), deepCopy(h, fv.node))

\* copyExtension.Apply after the VisitPath of path's parent returned pp
copyFrom(p, h, d, path, from, pp) ==
  IF pp.err # "nil" THEN Ret(pp.err, h, d)
  ELSE copyValue(p, h, d, path, pp, VisitPath(p, h, d, Path(from)))

\* copyExtension.Apply
copyApply(p, h, d, op) ==
  copyFrom(p, h, d, op.Path[1], op.From[1], VisitPath(p, h, d, ParentPath(op.Path[1])))

\* reflect.DeepEqual(value, expect)
DeepEqual(h, x, y) == Tree(h, x) = Tree(h, y)

\* A test that stores the expected value where it found another one
testValue_mWrites(p, h, d, expect, r) ==
  IF r.err # "nil" THEN Ret(IF p.strict THEN r.err ELSE "stop", h, d)
  ELSE IF DeepEqual(h, r.node, expect) THEN Ret("nil", h, d)
  ELSE [ApplySet(h, d, r.set, expect) EXCEPT !.err = "stop"]

\* testExtension.Apply after VisitPath returned r
testValue(p, h, d, expect, r) ==
  IF r.err # "nil" THEN Ret(IF p.strict THEN r.err ELSE "stop", h, d)
  ELSE IF DeepEqual(h, r.node, expect) THEN Ret("nil", h, d)
  ELSE Ret("stop", h, d)

\* testExtension.Apply
testApply(p, h, d, op) ==
  testValue(p, h, d, op.Value[1], VisitPath(p, h, d, Path(op.Path[1])))

\* ext.Apply(p, o, op) of the registered extension
extApply(p, h, d, op) ==
  CASE op.OP[1] = "add" -> addApply(p, h, d, op)
    [] op.OP[1] = "remove" -> removeApply(p, h, d, op)
    [] op.OP[1] = "replace" -> replaceApply(p, h, d, op)
    [] op.OP[1] = "move" -> moveApply(p, h, d, op)
    [] op.OP[1] = "copy" -> copyApply(p, h, d, op)
    [] op.OP[1] = "test" -> testApply(p, h, d, op)

-----------------------------------------------------------------------------
\* Patch.applyAny as a state machine

Patch == [strict |-> strict, neg |-> neg]

\* A loop that ranges over the list from its end
CurrentOp_mReversed(list, i) == list[Len(list) + 1 - i]

\* for _, op := range ops: the operation of the current iteration
CurrentOp(list, i) == list[i]

\* A loop that ends on every error, whatever the mode
Continues_mStrictOnly(p, err) == err = "nil"

\* The loop goes on after ext.Apply returned err
Continues(p, err) == err = "nil" \/ (~p.strict /\ IsNotExists(err))

\* An applyAny that does not tell ErrStop from other errors
Outcome_mAllFailed(err) == IF err = "panic" THEN "panic" ELSE "failed"

\* What applyAny returns when it does not go on; a panic unwinds the call
Outcome(err) ==
  IF err = "panic" THEN "panic"
  ELSE IF IsStop(err) THEN "stopped"
  ELSE "failed"

\* if err := p.Check(ops); err != nil { return err }
CheckOps ==
  /\ pc = "check"
  /\ IF Check(ops) # "nil"
     THEN pc' = "done" /\ result' = "checkerr"
     ELSE pc' = "apply" /\ result' = result
  /\ UNCHANGED <<heap, doc, ops, strict, neg, idx, init, log, argSize, argToken, parsed>>

\* One iteration of the loop for an operation named name, r what its
\* ext.Apply returns
ApplyStep(name, r) ==
  /\ pc = "apply"
  /\ idx <= Len(ops)
  /\ CurrentOp(ops, idx).OP[1] = name
  /\ heap' = r.h
  /\ doc' = r.d
  /\ log' = Append(log, [i |-> idx, h |-> heap, d |-> doc, err |-> r.err])
  /\ IF Continues(Patch, r.err)
     THEN idx' = idx + 1 /\ pc' = pc /\ result' = result
     ELSE idx' = idx /\ pc' = "done" /\ result' = Outcome(r.err)
  /\ UNCHANGED <<ops, strict, neg, init, argSize, argToken, parsed>>

ApplyAdd == ApplyStep("add", addApply(Patch, heap, doc, CurrentOp(ops, idx)))
ApplyRemove == ApplyStep("remove", removeApply(Patch, heap, doc, CurrentOp(ops, idx)))
ApplyReplace == ApplyStep("replace", replaceApply(Patch, heap, doc, CurrentOp(ops, idx)))
ApplyMove == ApplyStep("move", moveApply(Patch, heap, doc, CurrentOp(ops, idx)))
ApplyCopy == ApplyStep("copy", copyApply(Patch, heap, doc, CurrentOp(ops, idx)))
ApplyTest == ApplyStep("test", testApply(Patch, heap, doc, CurrentOp(ops, idx)))

\* return nil after the loop
Return ==
  /\ pc = "apply"
  /\ idx > Len(ops)
  /\ pc' = "done"
  /\ result' = "ok"
  /\ UNCHANGED <<heap, doc, ops, strict, neg, idx, init, log, argSize, argToken, parsed>>

Next ==
  \/ CheckOps
  \/ ApplyAdd
  \/ ApplyRemove
  \/ ApplyReplace
  \/ ApplyMove
  \/ ApplyCopy
  \/ ApplyTest
  \/ Return

-----------------------------------------------------------------------------
\* Inputs: documents and operation lists as the JSON decoder builds them
\* (no cell shared between two values; a decoded array of length 3 has cap 4)

None == <<>>
Some(x) == <<x>>

P1(a) == <<"/", a>>
P2(a, b) == <<"/", a, "/", b>>
P3(a, b, c) == <<"/", a, "/", b, "/", c>>

Op(name, path, value, from) == [OP |-> name, Path |-> path, Value |-> value, From |-> from]

\* Cells 1-3: {"a": {"x": [1, 2]}, "b": 1}.  Cell 4: [1, 2, 3].  Cell 5: {}.
\* Cell 6: {"y": 1}, the value of an operation.
Heap0 ==
  << MapCell((<<"a">> :> MapRef(2)) @@ (<<"b">> :> Num(1))),
     MapCell(<<"x">> :> ArrRef(3, 2)),
     ArrCell(<<Num(1), Num(2)>>),
     ArrCell(<<Num(1), Num(2), Num(3), Null>>),
     MapCell(EmptyMap),
     MapCell(<<"y">> :> Num(1)) >>

DocObject == MapRef(1)
DocArray == ArrRef(4, 3)
DocEmpty == MapRef(5)

Docs0 == {DocObject, DocArray, DocEmpty}

ValueY == MapRef(6)

ValidOps ==
  { Op(Some("add"), Some(P1("c")), Some(Num(5)), None),
    Op(Some("add"), Some(P1("c")), Some(ValueY), None),
    Op(Some("add"), Some(P1("c")), Some(Null), None),
    Op(Some("add"), Some(P2("c", "y")), Some(Num(2)), None),
    Op(Some("add"), Some(P3("a", "x", "0")), Some(Num(9)), None),
    Op(Some("remove"), Some(P1("b")), None, None),
    Op(Some("remove"), Some(P3("a", "x", "0")), None, None),
    Op(Some("remove"), Some(P3("c", "x", "0")), None, None),
    Op(Some("remove"), Some(P2("q", "r")), None, None),
    Op(Some("remove"), Some(P2("b", "z")), None, None),
    Op(Some("remove"), Some(P3("a", "x", "5")), None, None),
    Op(Some("replace"), Some(P1("b")), Some(Num(7)), None),
    Op(Some("replace"), Some(P1("q")), Some(Num(7)), None),
    Op(Some("replace"), Some(P1("b")), Some(Null), None),
    Op(Some("move"), Some(P2("q", "r")), None, Some(P1("b"))),
    Op(Some("move"), Some(P3("a", "x", "1")), None, Some(P3("a", "x", "0"))),
    Op(Some("move"), Some(P3("a", "x", "-")), None, Some(P3("a", "x", "0"))),
    Op(Some("replace"), Some(P3("a", "x", "2")), Some(Num(7)), None),
    Op(Some("move"), Some(P1("c")), None, Some(P1("q"))),
    Op(Some("move"), Some(P1("c")), None, Some(P1("a"))),
    Op(Some("copy"), Some(P1("c")), None, Some(P1("a"))),
    Op(Some("copy"), Some(P1("c")), None, Some(P1("q"))),
    Op(Some("test"), Some(P1("b")), Some(Num(1)), None),
    Op(Some("test"), Some(P1("b")), Some(Num(2)), None),
    Op(Some("test"), Some(P1("q")), Some(Num(1)), None),
    Op(Some("test"), Some(P1("c")), Some(Null), None) }

\* Operations that static validation rejects
InvalidOps ==
  { Op(None, Some(P1("c")), Some(Num(5)), None),
    Op(Some("add"), None, Some(Num(5)), None),
    Op(Some("add"), Some(<<"c">>), Some(Num(5)), None),
    Op(Some("copy"), Some(P1("c")), None, Some(<<"a">>)),
    Op(Some("frob"), Some(P1("c")), Some(Num(5)), None),
    Op(Some("add"), Some(P1("c")), None, None),
    Op(Some("replace"), Some(P1("b")), None, None),
    Op(Some("test"), Some(P1("b")), None, None),
    Op(Some("move"), Some(P1("c")), None, None),
    Op(Some("copy"), Some(P1("c")), None, None) }

OpPool == ValidOps \cup InvalidOps

IsContainer(v) == v.t \in {"map", "arr"}

\* No two operations of a decoded list hold the same map or array
NoSharedValue(list) ==
  \A i, j \in 1..Len(list) :
    (i < j /\ list[i].Value # <<>> /\ list[j].Value # <<>>
       /\ IsContainer(list[i].Value[1]) /\ IsContainer(list[j].Value[1]))
    => list[i].Value[1].a # list[j].Value[1].a

Lists(pool, n) == UNION {[1..k -> pool] : k \in 0..n}

Init ==
  /\ heap = Heap0
  /\ doc \in Docs0
  /\ ops \in {l \in Lists(OpPool, MaxOps) : NoSharedValue(l)}
  /\ strict \in BOOLEAN
  /\ neg = FALSE
  /\ pc = "check"
  /\ idx = 1
  /\ result = "none"
  /\ init = [h |-> heap, d |-> doc]
  /\ log = <<>>
  /\ argSize = 0
  /\ argToken = <<>>
  /\ parsed = NotParsed

Spec == Init /\ [][Next]_vars

-----------------------------------------------------------------------------
\* Vocabulary of the properties

Applied == Len(log)
LastErr == log[Len(log)].err
LastOp == ops[log[Len(log)].i]
Before == log[Len(log)]

\* The state after the k-th ext.Apply call
After(k) == IF k < Len(log) THEN [h |-> log[k + 1].h, d |-> log[k + 1].d]
            ELSE [h |-> heap, d |-> doc]

DocTree == Tree(heap, doc)
TreeOf(st) == Tree(st.h, st.d)

OpIs(op, names) == op.OP # <<>> /\ op.OP[1] \in names

\* Static validation as the properties state it
StaticallyInvalid(op) ==
  \/ op.OP = <<>>
  \/ op.Path = <<>>
  \/ (op.Path[1] # <<>> /\ op.Path[1][1] # "/")
  \/ (op.From # <<>> /\ op.From[1] # <<>> /\ op.From[1][1] # "/")
  \/ op.OP[1] \notin {"add", "remove", "replace", "move", "copy", "test"}
  \/ (op.OP[1] \in {"add", "replace", "test"} /\ op.Value = <<>>)
  \/ (op.OP[1] \in {"move", "copy"} /\ op.From = <<>>)

\* After the last ext.Apply call the loop went on to the next operation
\* (and returned nil if there was none)
GoesOn == idx = Before.i + 1 /\ (pc = "apply" \/ (pc = "done" /\ result = "ok"))

HasInvalid == \E i \in 1..Len(ops) : StaticallyInvalid(ops[i])

-----------------------------------------------------------------------------
\* C1. Check-before-apply: when some operation of the list fails static
\* validation, wherever it sits, no operation is ever applied, the heap and
\* the document root stay exactly as they were at the call, and applyAny
\* returns the error of Check.
C1_CheckBeforeApply ==
  HasInvalid =>
    /\ pc # "apply"
    /\ Applied = 0
    /\ heap = init.h /\ doc = init.d
    /\ (pc = "done" => result = "checkerr")

\* An invalid operation is last, the one before it is valid and would have
\* changed the document, and applyAny has returned.
C1_Witness ==
  /\ Len(ops) = 2
  /\ ~StaticallyInvalid(ops[1])
  /\ StaticallyInvalid(ops[2])
  /\ extApply(Patch, init.h, init.d, ops[1]).err = "nil"
  /\ TreeOf(extApply(Patch, init.h, init.d, ops[1])) # Tree(init.h, init.d)
  /\ pc = "done"
  /\ result = "checkerr"

-----------------------------------------------------------------------------
\* C2. Non-strict skip is a no-op: with strictPathExists = false, after an
\* ext.Apply that failed with ErrNotExists the document is the one before
\* that call and the loop goes on to the next operation.
C2_SkipIsNoOp ==
  (Applied > 0 /\ ~strict /\ IsNotExists(LastErr)) =>
    /\ DocTree = Tree(Before.h, Before.d)
    /\ GoesOn

\* applyAny skipped a move that had already removed its source.
C2_Reached ==
  /\ Applied > 0 /\ ~strict /\ IsNotExists(LastErr)
  /\ OpIs(LastOp, {"move"})
  /\ DocTree # Tree(Before.h, Before.d)

-----------------------------------------------------------------------------
\* The location an operation must find: from of move and copy, path of the
\* others
Target(op) == IF OpIs(op, {"move", "copy"}) THEN op.From[1] ELSE op.Path[1]

\* The location is not present in the document of state st
Absent(st, op) == VisitPath(Patch, st.h, st.d, Path(Target(op))).err # "nil"

\* The decimal token of a natural number below 10
Dec(n) == <<Digits[n + 1]>>

\* Why a walk from node along tokens finds nothing: "member" (an object has
\* no such member), "append" (the index is the array's length, "-" included),
\* "index" (any other token on an array), "type" (a step into a scalar);
\* "present" when the walk ends on a value
RECURSIVE FirstMiss(_, _, _)
FirstMiss(h, node, tokens) ==
  IF Len(tokens) = 0 THEN "present"
  ELSE IF node.t = "map" THEN
    IF tokens[1] \in DOMAIN h[node.a].m
    THEN FirstMiss(h, h[node.a].m[tokens[1]], Tail(tokens))
    ELSE "member"
  ELSE IF node.t = "arr" THEN
    IF \E i \in 0..(node.n - 1) : tokens[1] = Dec(i)
    THEN FirstMiss(h, h[node.a].s[(CHOOSE i \in 0..(node.n - 1) : tokens[1] = Dec(i)) + 1],
                   Tail(tokens))
    ELSE IF tokens[1] = <<"-">> \/ tokens[1] = Dec(node.n) THEN "append"
    ELSE "index"
  ELSE "type"

NoErrorAndGoesOn == GoesOn /\ Continues(Patch, LastErr)

\* C3 as stated. Strictness switch: an operation remove, replace, move, copy
\* or test whose location is absent makes applyAny return an error when
\* strictPathExists = true; when it is false a remove, replace, move or copy
\* is skipped: no error, the document as before, the loop goes on.
C3_StrictnessSwitch ==
  (Applied > 0 /\ OpIs(LastOp, {"remove", "replace", "move", "copy", "test"})
     /\ Absent(Before, LastOp)) =>
    IF strict THEN pc = "done" /\ result = "failed"
    ELSE OpIs(LastOp, {"remove", "replace", "move", "copy"}) =>
           (NoErrorAndGoesOn /\ DocTree = Tree(Before.h, Before.d))

\* C3 amended. With strictPathExists = true as stated. With
\* strictPathExists = false, a remove, replace, move or copy whose location
\* is absent because an object member is missing or an index is the array's
\* length (for copy: while the parent of path resolves) reports no error and
\* the loop goes on; the document is as before, except that replace with a
\* missing last member of an existing object adds the member.
C3_Amended ==
  (Applied > 0 /\ OpIs(LastOp, {"remove", "replace", "move", "copy", "test"})
     /\ Absent(Before, LastOp)) =>
    IF strict THEN pc = "done" /\ result = "failed"
    ELSE (/\ OpIs(LastOp, {"remove", "replace", "move", "copy"})
          /\ FirstMiss(Before.h, Before.d, Path(Target(LastOp))) \in {"member", "append"}
          /\ (OpIs(LastOp, {"copy"}) =>
                VisitPath(Patch, Before.h, Before.d, ParentPath(LastOp.Path[1])).err = "nil"))
         => /\ NoErrorAndGoesOn
            /\ \/ DocTree = Tree(Before.h, Before.d)
               \/ /\ OpIs(LastOp, {"replace"})
                  /\ FirstMiss(Before.h, Before.d, ParentPath(LastOp.Path[1])) = "present"
                  /\ VisitPath(Patch, Before.h, Before.d, ParentPath(LastOp.Path[1])).node.t = "map"

\* Non-strict: the first operation addressed a missing member and was
\* skipped, the second one was applied and changed the document.
C3_Witness ==
  /\ ~strict
  /\ Applied = 2
  /\ OpIs(ops[1], {"remove", "move", "copy"})
  /\ Absent(log[1], ops[1])
  /\ FirstMiss(log[1].h, log[1].d, Path(Target(ops[1]))) = "member"
  /\ log[1].err = "notexists"
  /\ Tree(log[2].h, log[2].d) = Tree(log[1].h, log[1].d)
  /\ log[2].err = "nil"
  /\ DocTree # Tree(log[2].h, log[2].d)

-----------------------------------------------------------------------------
\* The last operation is a test that yields the abort signal: the value it
\* fetched differs from the expected one, or (non-strict) its path does not
\* resolve
AbortCase ==
  /\ Applied > 0
  /\ OpIs(LastOp, {"test"})
  /\ LET r == VisitPath(Patch, Before.h, Before.d, Path(LastOp.Path[1]))
     IN  \/ r.err = "nil" /\ Tree(Before.h, r.node) # Tree(Before.h, LastOp.Value[1])
         \/ r.err # "nil" /\ ~strict

\* C4. The abort signal halts the patch: applyAny returns at that test with
\* the "operation stopped" error in both modes, no later operation is
\* applied, and the document is the one the earlier operations left.
C4_AbortHalts ==
  AbortCase =>
    /\ LastErr = "stop"
    /\ pc = "done"
    /\ result = "stopped"
    /\ idx = Before.i
    /\ Applied = idx
    /\ heap = Before.h /\ doc = Before.d

\* Non-strict: an earlier operation changed the document, then a test
\* yielded the abort signal with one more operation left in the list.
C4_Witness ==
  /\ AbortCase
  /\ Applied = 1 \/ Tree(log[1].h, log[1].d) # Tree(log[2].h, log[2].d)
  /\ Applied < Len(ops) \/ Applied = 2
  /\ Len(ops) = 2
  /\ result = "stopped"

-----------------------------------------------------------------------------
RECURSIVE FoldOps(_, _, _, _)
RECURSIVE foldNext(_, _, _)

\* The left fold of single-operation application over list, from (h, d);
\* it ends at the first operation after which the loop does not go on
FoldOps(p, h, d, list) ==
  IF Len(list) = 0 THEN Ret("nil", h, d)
  ELSE foldNext(p, extApply(p, h, d, list[1]), Tail(list))

foldNext(p, r, rest) ==
  IF Continues(p, r.err) /\ Len(rest) > 0 THEN FoldOps(p, r.h, r.d, rest) ELSE r

Reverse(list) == [i \in 1..Len(list) |-> list[Len(list) + 1 - i]]

\* C5. Strict left-to-right sequencing: the k-th ext.Apply call is for the
\* k-th operation of the list, and the heap and document after the calls so
\* far are the left fold of single-operation application over those
\* operations, starting from the document of the call.
C5_LeftToRight ==
  (pc # "check" /\ result # "checkerr") =>
    /\ \A k \in 1..Applied : log[k].i = k
    /\ LET f == FoldOps(Patch, init.h, init.d, SubSeq(ops, 1, Applied))
       IN  heap = f.h /\ doc = f.d
    /\ (pc = "apply" => idx = Applied + 1)
    /\ (result = "ok" => Applied = Len(ops))

\* Two operations were applied whose order matters.
C5_Witness ==
  /\ result = "ok"
  /\ Applied = 2
  /\ log[1].err = "nil" /\ log[2].err = "nil"
  /\ TreeOf(FoldOps(Patch, init.h, init.d, Reverse(ops))) # DocTree
  /\ Tree(log[2].h, log[2].d) # Tree(init.h, init.d)

-----------------------------------------------------------------------------
\* C6. The operation list is immutable input: the value of every operation
\* record, nested contents included, is after the call what it was before.
C6_OpsImmutable ==
  \A i \in 1..Len(ops) :
    ops[i].Value # <<>> => Tree(heap, ops[i].Value[1]) = Tree(init.h, ops[i].Value[1])

\* An add stored the map of its value in the document and a later add wrote
\* a member of that map.
C6_Reached ==
  /\ Applied = 2
  /\ OpIs(ops[1], {"add"}) /\ OpIs(ops[2], {"add"})
  /\ IsContainer(ops[1].Value[1])
  /\ log[1].err = "nil" /\ log[2].err = "nil"
  /\ Tree(heap, ops[1].Value[1]) # Tree(init.h, ops[1].Value[1])

-----------------------------------------------------------------------------
IsPrefix(a, b) == Len(a) <= Len(b) /\ SubSeq(b, 1, Len(a)) = a

Disjoint(a, b) == ~IsPrefix(a, b) /\ ~IsPrefix(b, a)

\* Every pointer of op names a location at or below tokens
Below(op, tokens) ==
  /\ IsPrefix(tokens, Path(op.Path[1]))
  /\ op.From # <<>> => IsPrefix(tokens, Path(op.From[1]))

NoValue == [t |-> "absent", n |-> 0, m |-> EmptyMap, s |-> <<>>]

\* The JSON value at tokens in the document of state st
ValueAt(st, tokens) ==
  IF VisitPath(Patch, st.h, st.d, tokens).err = "nil"
  THEN Tree(st.h, VisitPath(Patch, st.h, st.d, tokens).node)
  ELSE NoValue

\* The heap cells a value reaches
RECURSIVE Cells(_, _)
Cells(h, o) ==
  IF o.t = "arr" THEN {o.a} \cup UNION {Cells(h, h[o.a].s[i]) : i \in 1..Len(h[o.a].s)}
  ELSE IF o.t = "map" THEN {o.a} \cup UNION {Cells(h, h[o.a].m[k]) : k \in DOMAIN h[o.a].m}
  ELSE {}

CellsAt(st, tokens) ==
  IF VisitPath(Patch, st.h, st.d, tokens).err = "nil"
  THEN Cells(st.h, VisitPath(Patch, st.h, st.d, tokens).node)
  ELSE {}

\* The k-th call was a successful copy between two locations neither of
\* which contains the other
CopyDone(k) ==
  /\ OpIs(ops[log[k].i], {"copy"})
  /\ log[k].err = "nil"
  /\ Disjoint(Path(ops[log[k].i].From[1]), Path(ops[log[k].i].Path[1]))

\* C7. Copy never aliases: after a successful copy from F to P (neither
\* inside the other) the values at F and P share no map and no backing
\* array, at any depth; later operations at or below P leave the value at F
\* as the copy left it, and later operations at or below F leave the value
\* at P as the copy left it.
C7_CopyNeverAliases ==
  \A k \in 1..Applied :
    CopyDone(k) =>
      LET F == Path(ops[log[k].i].From[1])
          P == Path(ops[log[k].i].Path[1])
      IN  /\ CellsAt(After(k), F) \cap CellsAt(After(k), P) = {}
          /\ ValueAt(After(k), P) = ValueAt(After(k), F)
          /\ \A m \in (k + 1)..Applied :
               /\ (\A j \in (k + 1)..m : Below(ops[log[j].i], P))
                    => ValueAt(After(m), F) = ValueAt(After(k), F)
               /\ (\A j \in (k + 1)..m : Below(ops[log[j].i], F))
                    => ValueAt(After(m), P) = ValueAt(After(k), P)

\* A copy of a map that holds an array, then an operation that changed the
\* array inside the copy.
C7_Witness ==
  /\ Applied = 2
  /\ CopyDone(1)
  /\ Below(ops[2], Path(ops[1].Path[1]))
  /\ Len(Path(ops[2].Path[1])) = 3
  /\ log[2].err = "nil"
  /\ ValueAt(After(2), Path(ops[1].Path[1])) # ValueAt(After(1), Path(ops[1].Path[1]))

-----------------------------------------------------------------------------
\* C8. A test operation never mutates the document: after an ext.Apply of a
\* test, in both modes and whether it matched, mismatched or did not
\* resolve, the heap and the document root are the ones before the call.
C8_TestNeverMutates ==
  (Applied > 0 /\ OpIs(LastOp, {"test"})) => (heap = Before.h /\ doc = Before.d)

\* A test that matched was followed by a test that did not.
C8_Witness ==
  /\ Applied = 2
  /\ OpIs(ops[1], {"test"}) /\ OpIs(ops[2], {"test"})
  /\ log[1].err = "nil"
  /\ log[2].err # "nil"

-----------------------------------------------------------------------------
NullTree == Tree(<<>>, Null)

NullValued(op) == OpIs(op, {"add", "replace", "test"}) /\ op.Value = <<Null>>

Valueless(op) == OpIs(op, {"add", "replace", "test"}) /\ op.Value = <<>>

\* C9. Value presence is distinct from null: a list with an add, replace or
\* test that has no value member is rejected by Check before anything is
\* applied; a value member that is null is no reason for Check to reject;
\* an add or replace with a null value that succeeds on a member of an
\* object leaves null there, and a test with a null value succeeds exactly
\* when the value at its path is null.
C9_PresentNull ==
  /\ (\E i \in 1..Len(ops) : Valueless(ops[i]))
       => (pc # "apply" /\ Applied = 0 /\ (pc = "done" => result = "checkerr"))
  /\ (pc = "done" /\ result = "checkerr") => HasInvalid
  /\ \A k \in 1..Applied :
       LET op == ops[log[k].i]
           parent == VisitPath(Patch, log[k].h, log[k].d, ParentPath(op.Path[1]))
       IN  /\ (NullValued(op) /\ OpIs(op, {"add", "replace"}) /\ log[k].err = "nil"
                 /\ parent.err = "nil" /\ parent.node.t = "map")
                => ValueAt(After(k), Path(op.Path[1])) = NullTree
           /\ (NullValued(op) /\ OpIs(op, {"test"}))
                => (log[k].err = "nil"
                      <=> ValueAt([h |-> log[k].h, d |-> log[k].d], Path(op.Path[1])) = NullTree)

\* add /c null applied to {} gave {"c": null}.
C9_Witness ==
  /\ init.d = DocEmpty
  /\ Len(ops) = 1
  /\ NullValued(ops[1]) /\ OpIs(ops[1], {"add"})
  /\ result = "ok"
  /\ DocTree = [t |-> "map", n |-> 0, m |-> (<<"c">> :> NullTree), s |-> <<>>]

-----------------------------------------------------------------------------
\* The array (as a sequence of JSON values) at tokens in state st
ArrayAt(st, tokens) == ValueAt(st, tokens).s

RemoveAt(seq, i) == [j \in 1..(Len(seq) - 1) |-> IF j < i THEN seq[j] ELSE seq[j + 1]]

\* op is a move inside one array of state st, from an index below its
\* length to an index up to its length
SameArrayMove(st, op) ==
  /\ OpIs(op, {"move"})
  /\ SameParent(op.Path[1], op.From[1])
  /\ VisitPath(Patch, st.h, st.d, ParentPath(op.From[1])).err = "nil"
  /\ VisitPath(Patch, st.h, st.d, ParentPath(op.From[1])).node.t = "arr"
  /\ LET n == VisitPath(Patch, st.h, st.d, ParentPath(op.From[1])).node.n
         f == ParseArrayIndex(neg, n, LastToken(op.From[1]))
         t == ParseArrayIndex(neg, n, LastToken(op.Path[1]))
     IN  f.err = "nil" /\ f.i < n /\ t.err = "nil"

\* C10. Same-array move: a move from index f < n to index t <= n of one
\* array of length n succeeds; the array keeps its length, the moved element
\* is at index t (at the last index when t = n), the other elements keep
\* their order; with f = t the array is unchanged.
C10_SameArrayMove ==
  (Applied > 0 /\ SameArrayMove(Before, LastOp)) =>
    LET parent == ParentPath(LastOp.From[1])
        a == ArrayAt(Before, parent)
        b == ArrayAt([h |-> heap, d |-> doc], parent)
        n == Len(a)
        f == ParseArrayIndex(neg, n, LastToken(LastOp.From[1])).i
        t == ParseArrayIndex(neg, n, LastToken(LastOp.Path[1])).i
        to == IF t = n THEN n - 1 ELSE t
    IN  /\ LastErr = "nil"
        /\ Len(b) = n
        /\ IF f = t THEN b = a
           ELSE b[to + 1] = a[f + 1] /\ RemoveAt(b, to + 1) = RemoveAt(a, f + 1)

\* A move inside one array to its append position.
C10_Reached ==
  /\ Applied > 0
  /\ SameArrayMove(Before, LastOp)
  /\ LastToken(LastOp.Path[1]) = <<"-">>
  /\ LastErr = "panic"

-----------------------------------------------------------------------------
\* ParseArrayIndex called on its own, on every size up to MaxSize and every
\* token of up to MaxTok characters of TokenChars, in both modes.

TokenChars == {"-", "0", "1", "2", "a"}

Tokens == UNION {[1..n -> TokenChars] : n \in 0..MaxTok}

IndexInit ==
  /\ heap = <<>>
  /\ doc = Null
  /\ ops = <<>>
  /\ strict = TRUE
  /\ neg \in BOOLEAN
  /\ pc = "index"
  /\ idx = 1
  /\ result = "none"
  /\ init = [h |-> heap, d |-> doc]
  /\ log = <<>>
  /\ argSize \in 0..MaxSize
  /\ argToken \in Tokens
  /\ parsed = NotParsed

\* i, err := p.ParseArrayIndex(size, s)
ParseIndex ==
  /\ pc = "index"
  /\ parsed' = ParseArrayIndex(neg, argSize, argToken)
  /\ pc' = "parsed"
  /\ UNCHANGED <<heap, doc, ops, strict, neg, idx, result, init, log, argSize, argToken>>

IndexSpec == IndexInit /\ [][ParseIndex]_vars

\* s is a decimal numeral without leading zeros
IsDecimal(s) ==
  /\ Len(s) >= 1
  /\ \A i \in 1..Len(s) : s[i] \in {"0", "1", "2", "3", "4", "5", "6", "7", "8", "9"}
  /\ Len(s) > 1 => s[1] # "0"

RECURSIVE Pow10(_)
Pow10(n) == IF n = 0 THEN 1 ELSE 10 * Pow10(n - 1)

DigitOf(c) == CHOOSE k \in 0..9 : ToString(k) = c

RECURSIVE SumFrom(_, _)
SumFrom(s, i) ==
  IF i > Len(s) THEN 0 ELSE DigitOf(s[i]) * Pow10(Len(s) - i) + SumFrom(s, i + 1)

\* The number a decimal numeral denotes
Denotes(s) == SumFrom(s, 1)

IsMinusDecimal(s) == Len(s) >= 2 /\ s[1] = "-" /\ IsDecimal(Tail(s))

Returns(k) == parsed = [err |-> "nil", i |-> k]

Fails == parsed.err \in {"badindex", "range"}

\* What holds of every call, whatever a token "-k" means
IndexCommon ==
  /\ Fails \/ (parsed.err = "nil" /\ 0 <= parsed.i /\ parsed.i <= argSize)
  /\ argToken = <<"-">> => Returns(argSize)
  /\ IsDecimal(argToken) =>
       IF Denotes(argToken) <= argSize THEN Returns(Denotes(argToken)) ELSE Fails
  /\ (~neg /\ IsMinusDecimal(argToken)) => Fails
  /\ (argToken # <<"-">> /\ ~IsDecimal(argToken) /\ ~IsMinusDecimal(argToken)) => Fails

\* C11 as stated. Array index resolution: ParseArrayIndex(size, s) fails or
\* returns i with 0 <= i <= size; "-" returns size; a decimal token without
\* leading zeros denoting k returns k iff k <= size; with negative indices
\* enabled a token "-k" returns size-k iff size-k >= 0 and fails as out of
\* range otherwise; with negative indices disabled every token with a minus
\* sign other than "-" fails; tokens with leading zeros, empty tokens and
\* non-digits always fail.
C11_IndexResolution ==
  pc = "parsed" =>
    /\ IndexCommon
    /\ (neg /\ IsMinusDecimal(argToken)) =>
         IF argSize - Denotes(Tail(argToken)) >= 0
         THEN Returns(argSize - Denotes(Tail(argToken)))
         ELSE parsed.err = "range"

\* C11 amended. As above, but with negative indices enabled a token "-k"
\* returns size-k iff size-k >= 0 only for k >= 1, and the token "-0"
\* returns 0.
C11_Amended ==
  pc = "parsed" =>
    /\ IndexCommon
    /\ (neg /\ IsMinusDecimal(argToken) /\ Denotes(Tail(argToken)) >= 1) =>
         IF argSize - Denotes(Tail(argToken)) >= 0
         THEN Returns(argSize - Denotes(Tail(argToken)))
         ELSE parsed.err = "range"
    /\ (neg /\ argToken = <<"-", "0">>) => Returns(0)

\* With negative indices enabled, "-10" on an array of 12 elements gave 2.
C11_Witness ==
  /\ pc = "parsed"
  /\ neg
  /\ argSize = 12
  /\ argToken = <<"-", "1", "0">>
  /\ Returns(2)

-----------------------------------------------------------------------------
\* Operation lists that insert into arrays: at the root and nested, at the
\* front, inside, at the length and at "-", after a removal left room in the
\* backing array, in both index modes.

\* Heap0 and cell 7: [], as the decoder builds it (cap 0).
HeapInsert == Append(Heap0, ArrCell(<<>>))

DocNone == ArrRef(7, 0)

InsertOps ==
  { Op(Some("add"), Some(P1("0")), Some(Num(9)), None),
    Op(Some("add"), Some(P1("1")), Some(Num(9)), None),
    Op(Some("add"), Some(P1("3")), Some(Num(9)), None),
    Op(Some("add"), Some(P1("4")), Some(Num(9)), None),
    Op(Some("add"), Some(P1("-")), Some(Num(9)), None),
    Op(Some("add"), Some(<<"/", "-", "1">>), Some(Num(9)), None),
    Op(Some("add"), Some(P1("-")), Some(ValueY), None),
    Op(Some("add"), Some(P3("a", "x", "1")), Some(Num(9)), None),
    Op(Some("add"), Some(P3("a", "x", "2")), Some(Num(9)), None),
    Op(Some("add"), Some(P3("a", "x", "-")), Some(Num(9)), None),
    Op(Some("remove"), Some(P1("0")), None, None),
    Op(Some("remove"), Some(P3("a", "x", "1")), None, None),
    Op(Some("replace"), Some(P1("0")), Some(Num(7)), None),
    Op(Some("move"), Some(P1("1")), None, Some(P1("0"))),
    Op(Some("copy"), Some(P1("-")), None, Some(P1("0"))),
    Op(Some("copy"), Some(P3("a", "x", "0")), None, Some(P1("a"))),
    Op(Some("test"), Some(P1("0")), Some(Num(1)), None) }

InsertInit ==
  /\ heap = HeapInsert
  /\ doc \in {DocObject, DocArray, DocNone}
  /\ ops \in {l \in Lists(InsertOps, MaxOps) : NoSharedValue(l)}
  /\ strict \in BOOLEAN
  /\ neg \in BOOLEAN
  /\ pc = "check"
  /\ idx = 1
  /\ result = "none"
  /\ init = [h |-> heap, d |-> doc]
  /\ log = <<>>
  /\ argSize = 0
  /\ argToken = <<>>
  /\ parsed = NotParsed

InsertSpec == InsertInit /\ [][Next]_vars

\* op adds a value to an array of state st at a key that resolves to an index
InsertCase(st, op) ==
  /\ OpIs(op, {"add", "copy"})
  /\ OpIs(op, {"add"}) => ~IsTheWholeDocument(op.Path[1])
  /\ VisitPath(Patch, st.h, st.d, ParentPath(op.Path[1])).err = "nil"
  /\ VisitPath(Patch, st.h, st.d, ParentPath(op.Path[1])).node.t = "arr"
  /\ ParseArrayIndex(neg, VisitPath(Patch, st.h, st.d, ParentPath(op.Path[1])).node.n,
                     LastToken(op.Path[1])).err = "nil"
  /\ OpIs(op, {"copy"}) => VisitPath(Patch, st.h, st.d, Path(op.From[1])).err = "nil"

\* The JSON value op adds
Inserted(st, op) ==
  IF OpIs(op, {"add"}) THEN Tree(st.h, op.Value[1]) ELSE ValueAt(st, Path(op.From[1]))

\* C12. Array insertion shape: adding v to an array of length n at a key
\* that resolves to index i (0 <= i <= n) succeeds and the array reachable
\* from the parent slot afterwards has length n+1, the original elements
\* 0..i-1 at 0..i-1, v at i and the original elements i..n-1 at i+1..n;
\* index n and the token "-" both append.
C12_InsertionShape ==
  (Applied > 0 /\ InsertCase(Before, LastOp)) =>
    LET parent == ParentPath(LastOp.Path[1])
        a == ArrayAt(Before, parent)
        b == ArrayAt([h |-> heap, d |-> doc], parent)
        n == Len(a)
        i == ParseArrayIndex(neg, n, LastToken(LastOp.Path[1])).i
        v == Inserted(Before, LastOp)
    IN  /\ LastErr = "nil"
        /\ Len(b) = n + 1
        /\ \A j \in 1..i : b[j] = a[j]
        /\ b[i + 1] = v
        /\ \A j \in (i + 1)..n : b[j + 1] = a[j]
        /\ (i = n \/ LastToken(LastOp.Path[1]) = <<"-">>) => b = Append(a, v)

\* add /1 9 applied to [1, 2, 3] gave [1, 9, 2, 3].
C12_Witness ==
  /\ Applied = 1
  /\ init.d = DocArray
  /\ OpIs(LastOp, {"add"})
  /\ LastOp.Path[1] = P1("1")
  /\ DocTree.s = <<Tree(heap, Num(1)), Tree(heap, Num(9)), Tree(heap, Num(2)), Tree(heap, Num(3))>>

-----------------------------------------------------------------------------
\* Operation lists whose pointers are "" and "/", on documents with and
\* without a member named "" at the root.

Empty == <<>>
Slash == <<"/">>

\* Heap0, cell 7: {"": 3, "b": 1}, cell 8: {}, the value of an operation.
HeapPointer ==
  Heap0 \o << MapCell((Empty :> Num(3)) @@ (<<"b">> :> Num(1))), MapCell(EmptyMap) >>

DocKeyed == MapRef(7)
ValueEmpty == MapRef(8)

PointerOps ==
  { Op(Some("remove"), Some(Empty), None, None),
    Op(Some("remove"), Some(Slash), None, None),
    Op(Some("move"), Some(P1("c")), None, Some(Empty)),
    Op(Some("move"), Some(P1("c")), None, Some(Slash)),
    Op(Some("move"), Some(Empty), None, Some(P1("b"))),
    Op(Some("move"), Some(Slash), None, Some(P1("b"))),
    Op(Some("move"), Some(Empty), None, Some(Slash)),
    Op(Some("move"), Some(P2("a", "k")), None, Some(Empty)),
    Op(Some("copy"), Some(Empty), None, Some(P1("b"))),
    Op(Some("copy"), Some(Slash), None, Some(P1("b"))),
    Op(Some("copy"), Some(P1("c")), None, Some(Empty)),
    Op(Some("copy"), Some(P1("c")), None, Some(Slash)),
    Op(Some("add"), Some(Empty), Some(Num(5)), None),
    Op(Some("add"), Some(Slash), Some(Num(5)), None),
    Op(Some("replace"), Some(Empty), Some(Num(5)), None),
    Op(Some("replace"), Some(Slash), Some(Num(5)), None),
    Op(Some("test"), Some(Empty), Some(ValueEmpty), None),
    Op(Some("test"), Some(Empty), Some(Num(3)), None),
    Op(Some("test"), Some(Slash), Some(Num(3)), None) }

PointerInit ==
  /\ heap = HeapPointer
  /\ doc \in {DocKeyed, DocObject, DocArray, DocEmpty}
  /\ ops \in {l \in Lists(PointerOps, MaxOps) : NoSharedValue(l)}
  /\ strict \in BOOLEAN
  /\ neg = FALSE
  /\ pc = "check"
  /\ idx = 1
  /\ result = "none"
  /\ init = [h |-> heap, d |-> doc]
  /\ log = <<>>
  /\ argSize = 0
  /\ argToken = <<>>
  /\ parsed = NotParsed

PointerSpec == PointerInit /\ [][Next]_vars

Slashed(ptr) == IF ptr = <<Empty>> THEN <<Slash>> ELSE ptr

\* op with "/" for "" in the path of a remove, the path and from of a move
\* and the path of a copy
WithSlash(op) ==
  IF OpIs(op, {"remove", "copy"}) THEN [op EXCEPT !.Path = Slashed(@)]
  ELSE IF OpIs(op, {"move"}) THEN [op EXCEPT !.Path = Slashed(@), !.From = Slashed(@)]
  ELSE op

Now == [h |-> heap, d |-> doc]

\* The root of state st is an object, with the member named key or without
RootHas(st, key) == st.d.t = "map" /\ key \in DOMAIN st.h[st.d.a].m
RootLacks(st, key) == st.d.t = "map" /\ key \notin DOMAIN st.h[st.d.a].m

WithoutKey(m, key) == [k \in DOMAIN m \ {key} |-> m[k]]

\* C13. The empty pointer "" in the path of a remove, the path and from of
\* a move and the path of a copy is handled exactly like "/": the operation
\* returns the same error and leaves the same heap and root as with "/", it
\* acts on the member named "" of the root and never on the whole document;
\* add and replace at "" replace the root, test at "" compares the whole
\* document, and copy from "" copies the whole document.
C13_EmptyPointer ==
  Applied > 0 =>
    LET op == LastOp
        was == TreeOf(Before)
    IN  /\ OpIs(op, {"remove", "move", "copy"}) =>
             [err |-> LastErr, h |-> heap, d |-> doc]
               = extApply(Patch, Before.h, Before.d, WithSlash(op))
        /\ (OpIs(op, {"remove"}) /\ op.Path = <<Empty>> /\ RootHas(Before, Empty)) =>
             /\ LastErr = "nil"
             /\ doc = Before.d
             /\ DocTree.m = WithoutKey(was.m, Empty)
        /\ (OpIs(op, {"move"}) /\ op.From = <<Empty>> /\ op.Path = <<P1("c")>>
              /\ RootHas(Before, Empty)) =>
             /\ LastErr = "nil"
             /\ doc = Before.d
             /\ DocTree.m = (<<"c">> :> was.m[Empty]) @@ WithoutKey(was.m, Empty)
        /\ (OpIs(op, {"move"}) /\ op.Path = <<Empty>> /\ op.From = <<P1("b")>>
              /\ RootHas(Before, <<"b">>)) =>
             /\ LastErr = "nil"
             /\ doc = Before.d
             /\ DocTree.m = (Empty :> was.m[<<"b">>]) @@ WithoutKey(WithoutKey(was.m, <<"b">>), Empty)
        /\ (OpIs(op, {"copy"}) /\ op.Path = <<Empty>> /\ op.From = <<P1("b")>>
              /\ RootHas(Before, <<"b">>)) =>
             /\ LastErr = "nil"
             /\ doc = Before.d
             /\ DocTree.m = (Empty :> was.m[<<"b">>]) @@ WithoutKey(was.m, Empty)
        /\ (OpIs(op, {"copy"}) /\ op.From = <<Empty>> /\ op.Path = <<P1("c")>>
              /\ Before.d.t = "map") =>
             /\ LastErr = "nil"
             /\ doc = Before.d
             /\ DocTree.m = (<<"c">> :> was) @@ WithoutKey(was.m, <<"c">>)
        /\ (OpIs(op, {"add", "replace"}) /\ op.Path = <<Empty>>) =>
             /\ LastErr = "nil"
             /\ DocTree = Tree(Before.h, op.Value[1])
        /\ (OpIs(op, {"test"}) /\ op.Path = <<Empty>>) =>
             (LastErr = "nil" <=> was = Tree(Before.h, op.Value[1]))
        /\ (OpIs(op, {"test"}) /\ op.Path = <<Slash>> /\ RootHas(Before, Empty)) =>
             (LastErr = "nil" <=> was.m[Empty] = Tree(Before.h, op.Value[1]))

\* remove "" applied to {"": 3, "b": 1} gave {"b": 1}.
C13_Witness ==
  /\ Applied = 1
  /\ init.d = DocKeyed
  /\ OpIs(LastOp, {"remove"})
  /\ LastOp.Path = <<Empty>>
  /\ LastErr = "nil"
  /\ doc = DocKeyed
  /\ DOMAIN DocTree.m = {<<"b">>}

====
